---- MODULE Spec2Model ----
(***************************************************************************)
(* State-machine model of dungeon_generator.py: the tile grid, the room    *)
(* placer and carver, the connector, the recursive-backtracking maze       *)
(* carver with its resolution pass, the scene populator and the loot       *)
(* roller.                                                                 *)
(*                                                                         *)
(* Randomness.  Every call of the random module is a nondeterministic      *)
(* choice among the alternatives that call can return, numbered 1..n in    *)
(* the order the code enumerates them.  The variable rnd bounds the        *)
(* choice: a draw returns either the last alternative, or, while rnd > 0,  *)
(* one of the first MaxAlt alternatives, which costs one unit of rnd.      *)
(* With rnd = Unbounded a draw costs nothing and returns any alternative   *)
(* when there are at most MaxFree of them, and otherwise the last or one   *)
(* of the first MaxFree - 1.                                               *)
(***************************************************************************)
EXTENDS Integers, Sequences, FiniteSets, TLC

\* The pipeline: the grid, the room plan and the index of the room being
\* placed, the loot manifest, the spawner list, the position in the pipeline,
\* the cells of the active calls of the maze carver, the draw budget; and two
\* history variables: the cells ever set to MAZE_PASSAGE, and how many times
\* the carver entered each stride-2 cell.
VARIABLES grid, rooms, room_i, placed_loot, spawner_locations, pc, stack,
          rnd, carved, visits

\* The loot roller: the weight table of the InventoryManager, the locals of
\* the running _roll_loot call, the loot list it builds, and the last return
\* of _roll_weighted_tier.
VARIABLES tier_weights, roll, loot, rolled

\* The interior wall logic of carve_medium_room and carve_large_room taken one
\* iteration at a time: num_interior_walls, the iterations done, and the
\* is_horizontal and wall_r / wall_c of the last iteration.
VARIABLE interior_wall

pipevars == <<grid, rooms, room_i, placed_loot, spawner_locations, pc, stack,
              carved, visits>>

lootvars == <<tier_weights, roll, loot, rolled>>

vars == <<pipevars, rnd, lootvars, interior_wall>>

(***************************************************************************)
(* Configuration constants (section 1 of the source).                      *)
(***************************************************************************)
ROOM_WIDTH_PIXELS == 3840
ROOM_HEIGHT_PIXELS == 2160
TILE_SIZE_WIDTH == 256
TILE_SIZE_HEIGHT == 256

TILE_NO_WALL == "No_Wall"
TILE_CORNER_TL == "Top_Left_Corner"
TILE_CORNER_TR == "Top_Right_Corner"
TILE_CORNER_BL == "Bottom_Left_Corner"
TILE_CORNER_BR == "Bottom_Right_Corner"
TILE_WALL_TOP == "Top_Wall"
TILE_WALL_BOTTOM == "Bottom_Wall"
TILE_WALL_LEFT == "Left_Wall"
TILE_WALL_RIGHT == "Right_Wall"
TILE_HALLWAY_HORZ == "Horizontal_Hallway"
TILE_HALLWAY_VERT == "Vertical_Hallway"
TILE_OPEN_SPACE == "Open_Space"
TILE_CHEST == "Loot_Chest"
TILE_BARREL == "Loot_Barrel"
TILE_CRATE == "Loot_Crate"
TILE_SPAWNER == "Enemy_Spawner"

\* The two maze ids are the integers 1 and 0 in the source, the only grid
\* values that are not strings.  A grid cell of the model holds one sort of
\* value, so the ids are the numerals; IsStr below is isinstance(tile, str).
MAZE_PASSAGE == "1"
MAZE_WALL == "0"

IsStr(tile) == tile \notin {MAZE_WALL, MAZE_PASSAGE}

\* str.endswith("Wall") over the tile names of the source.
EndsWithWall(tile) ==
    tile \in {TILE_NO_WALL, TILE_WALL_TOP, TILE_WALL_BOTTOM, TILE_WALL_LEFT,
              TILE_WALL_RIGHT}

GRID_COLUMNS == ROOM_WIDTH_PIXELS \div TILE_SIZE_WIDTH
\* sys.setrecursionlimit(2000)
RECURSION_LIMIT == 2000

GRID_ROWS == ROOM_HEIGHT_PIXELS \div TILE_SIZE_HEIGHT

(***************************************************************************)
(* Bounds of the model.                                                    *)
(***************************************************************************)
MaxDraws == 1
MaxAlt == 3
MaxFree == 6
MaxRooms == 3
Unbounded == 0 - 1

Min(a, b) == IF a < b THEN a ELSE b
Max(a, b) == IF a < b THEN b ELSE a

\* range(a, b) of the source as a set.
Range(a, b) == {i \in a..(b - 1) : TRUE}

\* One draw among alternatives 1..n with budget b: the pairs
\* <<alternative, budget left>>.
Draw(n, b) ==
    IF b = Unbounded
    THEN {<<i, b>> : i \in {n} \cup 1..Min(n - 1, MaxFree - 1)}
    ELSE {<<n, b>>} \cup
         (IF b > 0 THEN {<<i, b - 1>> : i \in 1..Min(n - 1, MaxAlt)}
                   ELSE {})

\* A stage's intermediate result: the grid, the loot manifest and the draw
\* budget left.
St(g, l, b) == [g |-> g, l |-> l, b |-> b]

\* The sequence s without its i-th element.
Remove(s, i) == SubSeq(s, 1, i - 1) \o SubSeq(s, i + 1, Len(s))

\* random.shuffle(list) followed by a loop that consumes the first k
\* elements: the pairs <<elements consumed, in order; budget left>>.
RECURSIVE Shuffled(_, _, _)
Shuffled(list, k, b) ==
    IF k = 0 \/ list = <<>>
    THEN {<< <<>>, b >>}
    ELSE UNION {
           {<< <<list[dw[1]]>> \o rest[1], rest[2] >> :
               rest \in Shuffled(Remove(list, dw[1]), k - 1, dw[2])} :
           dw \in Draw(Len(list), b)}

(***************************************************************************)
(* Tile grid.                                                              *)
(***************************************************************************)
generate_initial_box_dungeon(rows, columns) ==
    [r \in 0..(rows - 1) |->
      [c \in 0..(columns - 1) |->
        IF r = rows - 1 /\ c = columns - 1 THEN TILE_CORNER_BR
        ELSE IF r = rows - 1 /\ c = 0 THEN TILE_CORNER_BL
        ELSE IF r = 0 /\ c = columns - 1 THEN TILE_CORNER_TR
        ELSE IF r = 0 /\ c = 0 THEN TILE_CORNER_TL
        ELSE IF r = 0 /\ 0 < c /\ c < columns - 1 THEN TILE_WALL_TOP
        ELSE IF r = rows - 1 /\ 0 < c /\ c < columns - 1 THEN TILE_WALL_BOTTOM
        ELSE IF c = 0 /\ 0 < r /\ r < rows - 1 THEN TILE_WALL_LEFT
        ELSE IF c = columns - 1 /\ 0 < r /\ r < rows - 1 THEN TILE_WALL_RIGHT
        ELSE TILE_NO_WALL]]

\* A variant that also resets the outer ring.
initialize_inner_grid_WholeGrid(dungeon_grid) ==
    [r \in DOMAIN dungeon_grid |-> [c \in DOMAIN dungeon_grid[r] |-> MAZE_WALL]]

initialize_inner_grid(dungeon_grid) ==
    [r \in DOMAIN dungeon_grid |->
      [c \in DOMAIN dungeon_grid[r] |->
        IF r \in Range(1, GRID_ROWS - 1) /\ c \in Range(1, GRID_COLUMNS - 1)
        THEN MAZE_WALL
        ELSE dungeon_grid[r][c]]]

InitialGrid ==
    initialize_inner_grid(generate_initial_box_dungeon(GRID_ROWS, GRID_COLUMNS))

\* The cells of a list in row-major order, as a sequence.
RECURSIVE SeqOfCells(_)
SeqOfCells(S) ==
    IF S = {} THEN <<>>
    ELSE LET m == CHOOSE x \in S :
                    \A y \in S : x[1] < y[1] \/ (x[1] = y[1] /\ x[2] <= y[2])
         IN <<m>> \o SeqOfCells(S \ {m})

\* for r in range(r0, r1): for c in range(c0, c1): the cells, in loop order.
CellsOf(r0, r1, c0, c1) ==
    LET h == Max(r1 - r0, 0)
        w == Max(c1 - c0, 0)
    IN [i \in 1..(h * w) |-> <<r0 + ((i - 1) \div w), c0 + ((i - 1) % w)>>]

\* grid[r][c] = tile for every cell of the sequence, in order.
RECURSIVE SetCells(_, _, _)
SetCells(g, cells, tile) ==
    IF cells = <<>> THEN g
    ELSE SetCells([g EXCEPT ![cells[1][1]][cells[1][2]] = tile], Tail(cells), tile)

(***************************************************************************)
(* Room and scene configuration (section 1 of the source).                 *)
(***************************************************************************)
ROOM_MIN_COUNT == 3
ROOM_MAX_COUNT == 8
ROOM_MIN_EXITS == 1
ROOM_MAX_EXITS == 4
ROOM_DIMENSIONS_SMALL == << <<2, 2>>, <<2, 3>>, <<3, 2>> >>
ROOM_DIMENSIONS_MEDIUM == << <<2, 4>>, <<4, 2>>, <<3, 4>>, <<4, 3>>, <<4, 4>> >>
ROOM_DIMENSIONS_LARGE ==
    << <<3, 7>>, <<7, 3>>, <<4, 6>>, <<6, 4>>, <<5, 5>>, <<5, 6>>, <<6, 5>>,
       <<6, 6>> >>
BARREL_COUNT_MIN == 1
BARREL_COUNT_MAX == 8
CRATE_COUNT_MIN == 1
CRATE_COUNT_MAX == 8
OUTSIDE_LOOT_MIN == 2
OUTSIDE_LOOT_MAX == 6
ENEMY_SPAWNER_COUNT == 2

(***************************************************************************)
(* Inventory and loot system.                                              *)
(***************************************************************************)
GEAR_TIERS == <<"F", "E", "D", "C", "B", "A", "S">>

GEAR_TIER_WEIGHTS ==
    ("S" :> 3) @@ ("A" :> 5) @@ ("B" :> 15) @@ ("C" :> 25) @@ ("D" :> 25)
    @@ ("E" :> 20) @@ ("F" :> 7)

MAX_LOOT_ITEMS == 8
BARREL_FIXED_LOOT_COUNT == 4
CRATE_FIXED_LOOT_COUNT == 6

\* list.index(tier): the 0-based position of the tier in GEAR_TIERS.
TierIndex(tier) == (CHOOSE i \in 1..Len(GEAR_TIERS) : GEAR_TIERS[i] = tier) - 1

RECURSIVE Sum(_)
Sum(weights) == IF weights = <<>> THEN 0 ELSE weights[1] + Sum(Tail(weights))

\* One _roll_weighted_tier call: its arguments, its return and the number
\* of random.choices calls it made.
Rolled(min_tier, max_tier, tier, draws) ==
    [min_tier |-> min_tier, max_tier |-> max_tier, tier |-> tier,
     draws |-> draws]
NoRoll == Rolled("", "", "", 0)

\* A variant that can return a choice of weight zero.
WeightedChoices_AnyWeight(choices, tw) == choices

\* random.choices(choices, weights, k=1)[0]: a choice of positive weight.
WeightedChoices(choices, tw) == SelectSeq(choices, LAMBDA t : tw[t] > 0)

\* A variant that ignores max_tier.
roll_weighted_tier_NoMax(tw, min_tier, max_tier, b) ==
    LET choices == SelectSeq(SubSeq(GEAR_TIERS, TierIndex(min_tier) + 1,
                                    Len(GEAR_TIERS)),
                             LAMBDA t : t \in DOMAIN tw /\ tw[t] > 0)
    IN IF choices = <<>>
       THEN {<<Rolled(min_tier, max_tier, "F", 0), b>>}
       ELSE {<<Rolled(min_tier, max_tier, choices[d[1]], 1), d[2]>> :
             d \in Draw(Len(choices), b)}

\* _roll_weighted_tier: the pairs <<return, budget left>>.
roll_weighted_tier(tw, min_tier, max_tier, b) ==
    LET min_index == TierIndex(min_tier)
        max_index == TierIndex(max_tier)
        \* GEAR_TIERS[min_index:max_index + 1]
        valid_tiers == SubSeq(GEAR_TIERS, min_index + 1, max_index + 1)
        choices == SelectSeq(valid_tiers, LAMBDA t : t \in DOMAIN tw)
        weights == [i \in 1..Len(choices) |-> tw[choices[i]]]
    IN IF choices = <<>> \/ Sum(weights) = 0
       THEN {<<Rolled(min_tier, max_tier, "F", 0), b>>}
       ELSE {<<Rolled(min_tier, max_tier,
                      WeightedChoices(choices, tw)[d[1]], 1), d[2]>> :
             d \in Draw(Len(WeightedChoices(choices, tw)), b)}

\* A variant that makes the item one tier better than asked.
generate_gear_NextTier(tier_index) ==
    [tier |-> GEAR_TIERS[Min(tier_index + 2, Len(GEAR_TIERS))]]

\* generate_gear.  The item type, the name built from tier and type, and the
\* stats placeholder take no part in any tier or count and are left out of
\* the item.
generate_gear(tier_index) == [tier |-> GEAR_TIERS[tier_index + 1]]

\* The locals of a _roll_loot call.
RollState(kind, phase, high_count, low_count, total_count, sampled) ==
    [kind |-> kind, phase |-> phase, high_count |-> high_count,
     low_count |-> low_count, total_count |-> total_count, sampled |-> sampled]
IdleRoll == RollState("", "idle", 0, 0, 0, FALSE)

\* LootChest.generate_loot: _roll_loot(is_chest=True) up to the draw of
\* high_count.
GenerateChestLoot ==
    /\ roll.phase \in {"idle", "done"}
    /\ \E d \in Draw(4, rnd) :
         /\ roll' = RollState("Chest", "high", 1 + d[1] - 1, 0, 0, FALSE)
         /\ rnd' = d[2]
    /\ loot' = <<>>
    /\ rolled' = NoRoll
    /\ UNCHANGED <<pipevars, interior_wall, tier_weights>>

\* One iteration of the high-tier loop: random.random() < 0.20 (alternative
\* 1) rolls S, otherwise A.
RollHighTier ==
    /\ roll.phase = "high"
    /\ Len(loot) < roll.high_count
    /\ \E d \in Draw(2, rnd) :
         LET rolled_tier == IF d[1] = 1 THEN "S" ELSE "A"
         IN /\ loot' = Append(loot, generate_gear(TierIndex(rolled_tier)))
            /\ rnd' = d[2]
    /\ UNCHANGED <<pipevars, interior_wall, tier_weights, roll, rolled>>

\* low_count = random.randint(0, 4), after the high-tier loop.
DrawLowCount ==
    /\ roll.phase = "high"
    /\ Len(loot) = roll.high_count
    /\ \E d \in Draw(5, rnd) :
         /\ roll' = [roll EXCEPT !.phase = "low", !.low_count = 0 + d[1] - 1]
         /\ rnd' = d[2]
    /\ UNCHANGED <<pipevars, interior_wall, tier_weights, loot, rolled>>

\* One iteration of the low-tier loop.
RollLowTier ==
    /\ roll.phase = "low"
    /\ Len(loot) < roll.high_count + roll.low_count
    /\ \E t \in roll_weighted_tier(tier_weights, "F", "B", rnd) :
         /\ loot' = Append(loot, generate_gear(TierIndex(t[1].tier)))
         /\ rolled' = t[1]
         /\ rnd' = t[2]
    /\ UNCHANGED <<pipevars, interior_wall, tier_weights, roll>>

\* A return that samples MAX_LOOT_ITEMS // 2 items whenever the chest holds
\* more than that.
ReturnChestLoot_HalfCap ==
    /\ roll.phase = "low"
    /\ Len(loot) = roll.high_count + roll.low_count
    /\ IF Len(loot) > MAX_LOOT_ITEMS \div 2
       THEN \E sh \in Shuffled(loot, MAX_LOOT_ITEMS \div 2, rnd) :
              /\ loot' = sh[1]
              /\ rnd' = sh[2]
              /\ roll' = [roll EXCEPT !.phase = "done", !.sampled = TRUE]
       ELSE /\ roll' = [roll EXCEPT !.phase = "done"]
            /\ UNCHANGED <<loot, rnd>>
    /\ UNCHANGED <<pipevars, interior_wall, tier_weights, rolled>>

\* The cap on the chest's item count, and the return.
ReturnChestLoot ==
    /\ roll.phase = "low"
    /\ Len(loot) = roll.high_count + roll.low_count
    /\ IF Len(loot) > MAX_LOOT_ITEMS
       THEN \E sh \in Shuffled(loot, MAX_LOOT_ITEMS, rnd) :
              /\ loot' = sh[1]
              /\ rnd' = sh[2]
              /\ roll' = [roll EXCEPT !.phase = "done", !.sampled = TRUE]
       ELSE /\ roll' = [roll EXCEPT !.phase = "done"]
            /\ UNCHANGED <<loot, rnd>>
    /\ UNCHANGED <<pipevars, interior_wall, tier_weights, rolled>>

\* LootBarrel.generate_loot and LootCrate.generate_loot: _roll_loot with
\* min_count = max_count = FIXED_LOOT_COUNT, up to the draw of total_count.
GenerateFixedLoot(kind, fixed_loot_count) ==
    /\ roll.phase \in {"idle", "done"}
    /\ \E d \in Draw(fixed_loot_count - fixed_loot_count + 1, rnd) :
         /\ roll' = RollState(kind, "items", 0, 0, fixed_loot_count + d[1] - 1,
                              FALSE)
         /\ rnd' = d[2]
    /\ loot' = <<>>
    /\ rolled' = NoRoll
    /\ UNCHANGED <<pipevars, interior_wall, tier_weights>>

GenerateBarrelLoot == GenerateFixedLoot("Barrel", BARREL_FIXED_LOOT_COUNT)

GenerateCrateLoot == GenerateFixedLoot("Crate", CRATE_FIXED_LOOT_COUNT)

\* One iteration of the barrel/crate loop: a tier between LOOT_TIER_MIN ("F")
\* and LOOT_TIER_MAX ("A").
RollItem ==
    /\ roll.phase = "items"
    /\ Len(loot) < roll.total_count
    /\ \E t \in roll_weighted_tier(tier_weights, "F", "A", rnd) :
         /\ loot' = Append(loot, generate_gear(TierIndex(t[1].tier)))
         /\ rolled' = t[1]
         /\ rnd' = t[2]
    /\ UNCHANGED <<pipevars, interior_wall, tier_weights, roll>>

ReturnLoot ==
    /\ roll.phase = "items"
    /\ Len(loot) = roll.total_count
    /\ roll' = [roll EXCEPT !.phase = "done"]
    /\ UNCHANGED <<pipevars, interior_wall, tier_weights, loot, rolled, rnd>>

\* The pipeline variables of the loot roller's specifications: no grid.
\* No interior wall logic has run.
NoWall == [num_interior_walls |-> 0, done |-> 0, is_horizontal |-> FALSE,
           wall_rc |-> -1]

NoPipeline ==
    /\ grid = <<>>
    /\ rooms = <<>>
    /\ room_i = 1
    /\ placed_loot = <<>>
    /\ spawner_locations = <<>>
    /\ pc = "loot"
    /\ stack = <<>>
    /\ carved = {}
    /\ visits = <<>>
    /\ interior_wall = NoWall

InitLoot ==
    /\ NoPipeline
    /\ rnd = Unbounded
    /\ tier_weights = GEAR_TIER_WEIGHTS
    /\ roll = IdleRoll
    /\ loot = <<>>
    /\ rolled = NoRoll

NextLoot ==
    \/ GenerateChestLoot \/ RollHighTier \/ DrawLowCount \/ RollLowTier
    \/ ReturnChestLoot
    \/ GenerateBarrelLoot \/ GenerateCrateLoot \/ RollItem \/ ReturnLoot

SpecLoot == InitLoot /\ [][NextLoot]_vars

\* The weight tables considered for _roll_weighted_tier: the configured
\* table with any tiers missing and any tiers weighted zero.
WeightTables ==
    UNION {[present -> {0, 1}] : present \in SUBSET DOMAIN GEAR_TIER_WEIGHTS}

TableOf(zeroed) ==
    [t \in DOMAIN zeroed |-> IF zeroed[t] = 0 THEN 0 ELSE GEAR_TIER_WEIGHTS[t]]

TierSet == {GEAR_TIERS[i] : i \in 1..Len(GEAR_TIERS)}

\* One call _roll_weighted_tier(min_tier, max_tier).
RollTier ==
    /\ \E min_tier \in TierSet, max_tier \in TierSet :
         \E t \in roll_weighted_tier(tier_weights, min_tier, max_tier, rnd) :
           /\ rolled' = t[1]
           /\ rnd' = t[2]
    /\ UNCHANGED <<pipevars, interior_wall, tier_weights, roll, loot>>

InitTier ==
    /\ NoPipeline
    /\ rnd = Unbounded
    /\ \E z \in WeightTables : tier_weights = TableOf(z)
    /\ roll = IdleRoll
    /\ loot = <<>>
    /\ rolled = NoRoll

NextTier == RollTier

SpecTier == InitTier /\ [][NextTier]_vars

(***************************************************************************)
(* Room carver.                                                            *)
(***************************************************************************)
\* One manifest entry.  The rolled contents are the subject of the loot
\* roller's own specification (SpecLoot) and are not carried in the manifest
\* of the pipeline.
LootEntry(type, r, c) == [type |-> type, row |-> r, column |-> c]

\* The tiles of the sequence become containers of the given kinds (tile
\* names and manifest types, in step), one manifest entry appended for each.
RECURSIVE PutContainers(_, _, _, _, _)
PutContainers(g, l, tiles, tile_names, types) ==
    IF tiles = <<>> THEN <<g, l>>
    ELSE PutContainers([g EXCEPT ![tiles[1][1]][tiles[1][2]] = tile_names[1]],
                       Append(l, LootEntry(types[1], tiles[1][1], tiles[1][2])),
                       Tail(tiles), Tail(tile_names), Tail(types))

\* n copies of x.
Copies(n, x) == [i \in 1..n |-> x]

place_containers_in_room(s, start_r, start_c, width, height, room_type) ==
    LET end_r == start_r + height - 1
        end_c == start_c + width - 1
        open_tiles ==
            SelectSeq(CellsOf(start_r + 1, end_r, start_c + 1, end_c),
                      LAMBDA p : s.g[p[1]][p[2]] = TILE_OPEN_SPACE)
        max_barrels_in_room ==
            IF BARREL_COUNT_MAX > 1 THEN BARREL_COUNT_MAX \div 2 ELSE 1
        max_crates_in_room ==
            IF CRATE_COUNT_MAX > 1 THEN CRATE_COUNT_MAX \div 2 ELSE 1
        \* random.random() < LootChest.SPAWN_CHANCE: alternative 1 is true.
        chest_rolls ==
            IF room_type = "Large" THEN Draw(2, s.b) ELSE {<<2, s.b>>}
    IN UNION { UNION { UNION {
         LET num_barrels == BARREL_COUNT_MIN + db[1] - 1
             num_crates == CRATE_COUNT_MIN + dc[1] - 1
             planned_tiles ==
                 (IF dch[1] = 1 THEN <<TILE_CHEST>> ELSE <<>>)
                 \o Copies(num_barrels, TILE_BARREL)
                 \o Copies(num_crates, TILE_CRATE)
             planned_types ==
                 (IF dch[1] = 1 THEN <<"Chest">> ELSE <<>>)
                 \o Copies(num_barrels, "Barrel")
                 \o Copies(num_crates, "Crate")
             \* every loop stops placing once tiles_used reaches
             \* len(open_tiles)
             placed == Min(Len(planned_tiles), Len(open_tiles))
         IN { LET res == PutContainers(s.g, s.l, sh[1],
                                       SubSeq(planned_tiles, 1, placed),
                                       SubSeq(planned_types, 1, placed))
              IN St(res[1], res[2], sh[2]) :
              sh \in Shuffled(open_tiles, placed, dc[2]) } :
         dc \in Draw(max_crates_in_room - CRATE_COUNT_MIN + 1, db[2]) } :
         db \in Draw(max_barrels_in_room - BARREL_COUNT_MIN + 1, dch[2]) } :
         dch \in chest_rolls }

\* The perimeter carving loop of carve_small_room.
CarvePerimeter(g, start_r, start_c, width, height) ==
    LET end_r == start_r + height - 1
        end_c == start_c + width - 1
    IN [r \in DOMAIN g |->
         [c \in DOMAIN g[r] |->
           IF r \in Range(start_r, start_r + height)
              /\ c \in Range(start_c, start_c + width)
           THEN LET is_border == r = start_r \/ r = end_r \/ c = start_c \/ c = end_c
                    is_corner == \/ (r = start_r /\ c = start_c)
                                 \/ (r = start_r /\ c = end_c)
                                 \/ (r = end_r /\ c = start_c)
                                 \/ (r = end_r /\ c = end_c)
                IN IF is_corner
                   THEN IF r = start_r /\ c = start_c THEN TILE_CORNER_TL
                        ELSE IF r = start_r /\ c = end_c THEN TILE_CORNER_TR
                        ELSE IF r = end_r /\ c = start_c THEN TILE_CORNER_BL
                        ELSE TILE_CORNER_BR
                   ELSE IF is_border
                   THEN IF r = start_r THEN TILE_WALL_TOP
                        ELSE IF r = end_r THEN TILE_WALL_BOTTOM
                        ELSE IF c = start_c THEN TILE_WALL_LEFT
                        ELSE TILE_WALL_RIGHT
                   ELSE TILE_OPEN_SPACE
           ELSE g[r][c]]]

\* wall_tiles of carve_small_room, in the order the two loops extend it.
WallTiles(start_r, start_c, width, height) ==
    LET end_r == start_r + height - 1
        end_c == start_c + width - 1
        n_c == Max(end_c - (start_c + 1), 0)
        n_r == Max(end_r - (start_r + 1), 0)
    IN [i \in 1..(2 * n_c) |->
          <<IF i % 2 = 1 THEN start_r ELSE end_r, start_c + 1 + ((i - 1) \div 2)>>]
       \o [i \in 1..(2 * n_r) |->
          <<start_r + 1 + ((i - 1) \div 2), IF i % 2 = 1 THEN start_c ELSE end_c>>]

\* A variant that opens one exit whatever the room requires.
ExitCount_One(wall_tiles, exits_required) == Min(1, Len(wall_tiles))

\* The number of wall tiles the exit loop opens.
ExitCount(wall_tiles, exits_required) == Min(exits_required, Len(wall_tiles))

carve_small_room(s, start_r, start_c, width, height, exits_required) ==
    LET g1 == CarvePerimeter(s.g, start_r, start_c, width, height)
        wall_tiles == WallTiles(start_r, start_c, width, height)
    IN UNION {
         place_containers_in_room(
             St(SetCells(g1, sh[1], TILE_OPEN_SPACE), s.l, sh[2]),
             start_r, start_c, width, height, "Small") :
         sh \in Shuffled(wall_tiles, ExitCount(wall_tiles, exits_required), s.b) }

\* An interior wall that overwrites whatever the line holds.
PartitionLine_Overwrite(g, cells, tile) == SetCells(g, cells, tile)

\* One interior wall: every cell of the line that reads Open_Space becomes
\* the hallway tile.
PartitionLine(g, cells, tile) ==
    SetCells(g, SelectSeq(cells, LAMBDA p : g[p[1]][p[2]] = TILE_OPEN_SPACE), tile)

\* One iteration of the interior wall loop: the triples <<result,
\* is_horizontal, wall_r or wall_c>>.
OneInteriorWall(s, inner_start_r, inner_start_c, inner_height, inner_width) ==
    UNION {
      { LET \* random.choice([True, False]): alternative 1 is True
            is_horizontal == dh[1] = 1
            wall_r == inner_start_r + dl[1] - 1
            wall_c == inner_start_c + dl[1] - 1
            g2 == IF is_horizontal
                  THEN PartitionLine(s.g,
                           CellsOf(wall_r, wall_r + 1, inner_start_c,
                                   inner_start_c + inner_width),
                           TILE_HALLWAY_HORZ)
                  ELSE PartitionLine(s.g,
                           CellsOf(inner_start_r, inner_start_r + inner_height,
                                   wall_c, wall_c + 1),
                           TILE_HALLWAY_VERT)
        IN <<St(g2, s.l, dl[2]), is_horizontal,
             IF is_horizontal THEN wall_r ELSE wall_c>> :
        dl \in Draw(IF dh[1] = 1 THEN inner_height ELSE inner_width, dh[2]) } :
      dh \in Draw(2, s.b) }

\* for _ in range(n): one interior wall, horizontal or vertical.
RECURSIVE InteriorWallLoop(_, _, _, _, _, _)
InteriorWallLoop(s, n, inner_start_r, inner_start_c, inner_height, inner_width) ==
    IF n = 0 THEN {s}
    ELSE UNION {
           InteriorWallLoop(w[1], n - 1, inner_start_r, inner_start_c,
                            inner_height, inner_width) :
           w \in OneInteriorWall(s, inner_start_r, inner_start_c, inner_height,
                                 inner_width) }

\* The interior wall logic shared by carve_medium_room and carve_large_room.
InteriorWalls(s, start_r, start_c, width, height) ==
    LET inner_start_r == start_r + 1
        inner_start_c == start_c + 1
        inner_height == height - 2
        inner_width == width - 2
    IN IF inner_width >= 2 /\ inner_height >= 2
       THEN UNION { InteriorWallLoop(St(s.g, s.l, dn[2]), dn[1], inner_start_r,
                                     inner_start_c, inner_height, inner_width) :
                    dn \in Draw(3, s.b) }
       ELSE {s}

carve_medium_room(s, start_r, start_c, width, height, exits_required) ==
    UNION { UNION {
        place_containers_in_room(s2, start_r, start_c, width, height, "Medium") :
        s2 \in InteriorWalls(s1, start_r, start_c, width, height) } :
        s1 \in carve_small_room(s, start_r, start_c, width, height, exits_required) }

\* The sub-room placement logic of carve_large_room.
SubRoom(s, start_r, start_c, width, height) ==
    LET inner_start_r == start_r + 1
        inner_start_c == start_c + 1
        inner_height == height - 2
        inner_width == width - 2
    IN UNION {
         LET sub_width == ROOM_DIMENSIONS_SMALL[dd[1]][1]
             sub_height == ROOM_DIMENSIONS_SMALL[dd[1]][2]
             inner_possible_starts ==
                 CellsOf(inner_start_r, inner_start_r + inner_height - sub_height + 1,
                         inner_start_c, inner_start_c + inner_width - sub_width + 1)
             is_clear_for_sub(p) ==
                 \A q \in Range(p[1], p[1] + sub_height) \X Range(p[2], p[2] + sub_width) :
                     s.g[q[1]][q[2]] = TILE_OPEN_SPACE
             \* the shuffled list is scanned for the first clear start: any of
             \* the clear starts can be that one
             clear_starts == SelectSeq(inner_possible_starts, is_clear_for_sub)
         IN IF clear_starts = <<>>
            THEN {St(s.g, s.l, dd[2])}
            ELSE UNION {
                   carve_small_room(St(s.g, s.l, dp[2]), clear_starts[dp[1]][1],
                                    clear_starts[dp[1]][2], sub_width, sub_height, 1) :
                   dp \in Draw(Len(clear_starts), dd[2]) } :
         dd \in Draw(Len(ROOM_DIMENSIONS_SMALL), s.b) }

carve_large_room(s, start_r, start_c, width, height, exits_required) ==
    UNION { UNION { UNION {
        place_containers_in_room(s3, start_r, start_c, width, height, "Large") :
        s3 \in SubRoom(s2, start_r, start_c, width, height) } :
        s2 \in InteriorWalls(s1, start_r, start_c, width, height) } :
        s1 \in carve_small_room(s, start_r, start_c, width, height, exits_required) }

(***************************************************************************)
(* Room placer.                                                            *)
(***************************************************************************)
RoomRecord(i, room_type, room_width, room_height, num_exits) ==
    [id |-> i, type |-> room_type, width |-> room_width, height |-> room_height,
     exits_required |-> num_exits, placed |-> FALSE, start_r |-> -1,
     start_c |-> -1]

\* The simulated roll of generate_rooms_data: alternative 1 is roll < 0.33,
\* 2 is roll < 0.66, 3 is the rest.
RoomTypes == <<"Small", "Medium", "Large">>

DimensionsOf(room_type) ==
    IF room_type = "Small" THEN ROOM_DIMENSIONS_SMALL
    ELSE IF room_type = "Medium" THEN ROOM_DIMENSIONS_MEDIUM
    ELSE ROOM_DIMENSIONS_LARGE

\* for i in range(i, num_rooms): the pairs <<rooms_data, budget left>>.
RECURSIVE RoomsLoop(_, _, _, _)
RoomsLoop(rooms_data, i, num_rooms, b) ==
    IF i >= num_rooms THEN {<<rooms_data, b>>}
    ELSE UNION { UNION { UNION {
           LET room_type == RoomTypes[dt[1]]
               dims == DimensionsOf(room_type)[dd[1]]
               num_exits == ROOM_MIN_EXITS + de[1] - 1
           IN RoomsLoop(Append(rooms_data,
                               RoomRecord(i, room_type, dims[1], dims[2], num_exits)),
                        i + 1, num_rooms, de[2]) :
           de \in Draw(ROOM_MAX_EXITS - ROOM_MIN_EXITS + 1, dd[2]) } :
           dd \in Draw(Len(DimensionsOf(RoomTypes[dt[1]])), dt[2]) } :
           dt \in Draw(3, b) }

\* The room count is drawn from ROOM_MIN_COUNT..ROOM_MAX_COUNT, cut at
\* MaxRooms.
generate_rooms_data(b) ==
    UNION { RoomsLoop(<<>>, 0, ROOM_MIN_COUNT + dn[1] - 1, dn[2]) :
            dn \in Draw(Min(ROOM_MAX_COUNT, MaxRooms) - ROOM_MIN_COUNT + 1, b) }

\* A variant that checks the bounds of the area and not its cells.
is_area_clear_BoundsOnly(g, start_r, start_c, width, height) ==
    ~(start_r < 1 \/ start_c < 1 \/ start_r + height > GRID_ROWS - 1
      \/ start_c + width > GRID_COLUMNS - 1)

is_area_clear(g, start_r, start_c, width, height) ==
    LET rows == GRID_ROWS
        cols == GRID_COLUMNS
    IN IF start_r < 1 \/ start_c < 1 \/ start_r + height > rows - 1
          \/ start_c + width > cols - 1
       THEN FALSE
       ELSE \A r \in Range(start_r, start_r + height) :
              \A c \in Range(start_c, start_c + width) : g[r][c] = MAZE_WALL

\* A variant whose candidate ranges stop one origin short.
ClearStarts_ShortRange(g, room_width, room_height) ==
    SelectSeq(CellsOf(1, GRID_ROWS - room_height - 1, 1,
                      GRID_COLUMNS - room_width - 1),
              LAMBDA p : is_area_clear(g, p[1], p[2], room_width, room_height))

\* The candidate origins of find_clear_area that pass is_area_clear, in the
\* order the candidates are enumerated.  The shuffled list is scanned for the
\* first clear origin, so any clear origin can be the one returned.
ClearStarts(g, room_width, room_height) ==
    SelectSeq(CellsOf(1, GRID_ROWS - room_height, 1, GRID_COLUMNS - room_width),
              LAMBDA p : is_area_clear(g, p[1], p[2], room_width, room_height))

\* The pairs <<start, budget left>>; start is <<-1, -1>> when no origin is
\* clear.
find_clear_area(g, room_width, room_height, b) ==
    LET clear == ClearStarts(g, room_width, room_height)
    IN IF clear = <<>> THEN {<< <<-1, -1>>, b >>}
       ELSE {<<clear[d[1]], d[2]>> : d \in Draw(Len(clear), b)}

CarveRoom(s, room, start_r, start_c) ==
    IF room.type = "Small"
    THEN carve_small_room(s, start_r, start_c, room.width, room.height,
                          room.exits_required)
    ELSE IF room.type = "Medium"
    THEN carve_medium_room(s, start_r, start_c, room.width, room.height,
                           room.exits_required)
    ELSE IF room.type = "Large"
    THEN carve_large_room(s, start_r, start_c, room.width, room.height,
                          room.exits_required)
    ELSE {s}

\* One iteration of the loop of place_rooms_in_dungeon.
PlaceRoom ==
    /\ UNCHANGED <<lootvars, interior_wall>>
    /\ pc = "place"
    /\ room_i <= Len(rooms)
    /\ LET room == rooms[room_i]
       IN \E f \in find_clear_area(grid, room.width, room.height, rnd) :
            IF f[1][1] # -1
            THEN \E s \in CarveRoom(St(grid, placed_loot, f[2]), room,
                                    f[1][1], f[1][2]) :
                   /\ rooms' = [rooms EXCEPT ![room_i] =
                                   [@ EXCEPT !.placed = TRUE,
                                             !.start_r = f[1][1],
                                             !.start_c = f[1][2]]]
                   /\ grid' = s.g
                   /\ placed_loot' = s.l
                   /\ rnd' = s.b
            ELSE /\ rnd' = f[2]
                 /\ UNCHANGED <<rooms, grid, placed_loot>>
    /\ room_i' = room_i + 1
    /\ pc' = IF room_i = Len(rooms) THEN "connect" ELSE "place"
    /\ UNCHANGED <<spawner_locations, stack, carved, visits>>

(***************************************************************************)
(* Connector.                                                              *)
(***************************************************************************)
\* The body of the two cell loops of connect_rooms_to_hallways for one cell.
ConnectCell(g, room, r, c) ==
    LET start_r == room.start_r
        start_c == room.start_c
        end_r == start_r + room.height - 1
        end_c == start_c + room.width - 1
        dr == IF r = start_r THEN -1 ELSE IF r = end_r THEN 1 ELSE 0
        dc == IF r = start_r \/ r = end_r THEN 0
              ELSE IF c = start_c THEN -1 ELSE IF c = end_c THEN 1 ELSE 0
        connect_r == r + dr
        connect_c == c + dc
    IN IF /\ g[r][c] \in {TILE_OPEN_SPACE, TILE_BARREL, TILE_CRATE, TILE_CHEST}
          /\ (r = start_r \/ r = end_r \/ c = start_c \/ c = end_c)
          /\ 1 <= connect_r /\ connect_r < GRID_ROWS - 1
          /\ 1 <= connect_c /\ connect_c < GRID_COLUMNS - 1
          /\ g[connect_r][connect_c] = MAZE_WALL
       THEN [g EXCEPT ![connect_r][connect_c] = MAZE_PASSAGE]
       ELSE g

\* The two cell loops for one room, from the i-th cell on.  (The grid of
\* each step is bound as a value before the next step uses it.)
RECURSIVE ConnectCells(_, _, _, _)
ConnectCells(g, room, cells, i) ==
    IF i > Len(cells) THEN g
    ELSE CHOOSE out \in {ConnectCells(g2, room, cells, i + 1) :
                         g2 \in {ConnectCell(g, room, cells[i][1], cells[i][2])}} :
             TRUE

RECURSIVE ConnectRooms(_, _, _)
ConnectRooms(g, rooms_data, k) ==
    IF k > Len(rooms_data) THEN g
    ELSE LET room == rooms_data[k]
         IN CHOOSE out \in {ConnectRooms(g2, rooms_data, k + 1) :
                            g2 \in {IF ~room.placed THEN g
                                    ELSE ConnectCells(g, room,
                                           CellsOf(room.start_r,
                                                   room.start_r + room.height,
                                                   room.start_c,
                                                   room.start_c + room.width),
                                           1)}} :
                TRUE

connect_rooms_to_hallways(g, rooms_data) == ConnectRooms(g, rooms_data, 1)

\* The cells of the grid that read MAZE_PASSAGE.
PassageCells(g) ==
    {p \in (0..(GRID_ROWS - 1)) \X (0..(GRID_COLUMNS - 1)) :
        g[p[1]][p[2]] = MAZE_PASSAGE}

Connect ==
    /\ UNCHANGED <<lootvars, interior_wall>>
    /\ pc = "connect"
    /\ grid' = connect_rooms_to_hallways(grid, rooms)
    /\ carved' = carved \cup PassageCells(grid')
    /\ pc' = "hallways"
    /\ UNCHANGED <<rooms, room_i, placed_loot, spawner_locations, stack, rnd,
                   visits>>

(***************************************************************************)
(* Maze carver.                                                            *)
(***************************************************************************)
\* The stride-2 cells scanned for a start: range(1, rows - 1, 2) by
\* range(1, columns - 1, 2).
Lattice ==
    {<<r, c>> \in Range(1, GRID_ROWS - 1) \X Range(1, GRID_COLUMNS - 1) :
        r % 2 = 1 /\ c % 2 = 1}

directions == << <<0, 2>>, <<0, -2>>, <<2, 0>>, <<-2, 0>> >>

\* dr // 2 for the strides used (floor division).
Half(d) == IF d = 2 THEN 1 ELSE IF d = -2 THEN -1 ELSE 0

\* A variant that does not look at the neighbour's tile.
OpenDirections_AnyTile(g, r, c) ==
    SelectSeq(directions,
        LAMBDA d : /\ 1 <= r + d[1] /\ r + d[1] < GRID_ROWS - 1
                   /\ 1 <= c + d[2] /\ c + d[2] < GRID_COLUMNS - 1)

\* A variant that recurses into every neighbour that does not read
\* MAZE_PASSAGE.
OpenDirections_NotPassage(g, r, c) ==
    SelectSeq(directions,
        LAMBDA d : /\ 1 <= r + d[1] /\ r + d[1] < GRID_ROWS - 1
                   /\ 1 <= c + d[2] /\ c + d[2] < GRID_COLUMNS - 1
                   /\ g[r + d[1]][c + d[2]] # MAZE_PASSAGE)

\* The directions, in list order, whose two-cell neighbour is inside the
\* interior bound and still reads MAZE_WALL.
OpenDirections(g, r, c) ==
    SelectSeq(directions,
        LAMBDA d : /\ 1 <= r + d[1] /\ r + d[1] < GRID_ROWS - 1
                   /\ 1 <= c + d[2] /\ c + d[2] < GRID_COLUMNS - 1
                   /\ g[r + d[1]][c + d[2]] = MAZE_WALL)

\* random.choice(wall_starts) and the first statement of the outermost call.
StartMaze ==
    /\ UNCHANGED <<lootvars, interior_wall>>
    /\ pc = "hallways"
    /\ LET wall_starts == SeqOfCells({p \in Lattice : grid[p[1]][p[2]] = MAZE_WALL})
       IN IF wall_starts # <<>>
          THEN \E dw \in Draw(Len(wall_starts), rnd) :
                 LET s == wall_starts[dw[1]]
                 IN /\ grid' = [grid EXCEPT ![s[1]][s[2]] = MAZE_PASSAGE]
                    /\ stack' = <<s>>
                    /\ carved' = carved \cup {s}
                    /\ visits' = [visits EXCEPT ![s] = @ + 1]
                    /\ rnd' = dw[2]
                    /\ pc' = "carve"
          ELSE /\ pc' = "resolve"
               /\ UNCHANGED <<grid, stack, carved, visits, rnd>>
    /\ UNCHANGED <<rooms, room_i, placed_loot, spawner_locations>>

\* One iteration of the direction loop of the innermost active call that
\* passes both tests: the connecting cell is written and the call recurses.
\* A shuffled order visits the directions that pass the tests in some order
\* and skips the others without effect, and a neighbour that fails the tests
\* fails them for the rest of the carve, so the loop is the repeated choice
\* of one direction that passes them now.
CarveStep ==
    /\ UNCHANGED <<lootvars, interior_wall>>
    /\ pc = "carve"
    /\ stack # <<>>
    /\ LET top == stack[Len(stack)]
           open == OpenDirections(grid, top[1], top[2])
       IN /\ open # <<>>
          /\ \E dw \in Draw(Len(open), rnd) :
               LET d == open[dw[1]]
                   next == <<top[1] + d[1], top[2] + d[2]>>
                   wall == <<top[1] + Half(d[1]), top[2] + Half(d[2])>>
               IN /\ grid' = [grid EXCEPT ![wall[1]][wall[2]] = MAZE_PASSAGE,
                                          ![next[1]][next[2]] = MAZE_PASSAGE]
                  /\ stack' = Append(stack, next)
                  /\ carved' = carved \cup {wall, next}
                  /\ visits' = [visits EXCEPT ![next] = @ + 1]
                  /\ rnd' = dw[2]
    /\ UNCHANGED <<rooms, room_i, placed_loot, spawner_locations, pc>>

\* A call whose direction loop is exhausted and that never returns.
CarveReturn_Stay ==
    /\ pc = "carve"
    /\ stack # <<>>
    /\ LET top == stack[Len(stack)]
       IN OpenDirections(grid, top[1], top[2]) = <<>>
    /\ UNCHANGED vars

\* The direction loop of the innermost active call is exhausted: it returns.
CarveReturn ==
    /\ UNCHANGED <<lootvars, interior_wall>>
    /\ pc = "carve"
    /\ stack # <<>>
    /\ LET top == stack[Len(stack)]
       IN OpenDirections(grid, top[1], top[2]) = <<>>
    /\ stack' = SubSeq(stack, 1, Len(stack) - 1)
    /\ pc' = IF Len(stack) = 1 THEN "resolve" ELSE "carve"
    /\ UNCHANGED <<grid, rooms, room_i, placed_loot, spawner_locations, rnd,
                   carved, visits>>

\* A variant that does not count wall tiles as open.
is_passage_or_room_NoWalls(g, tr, tc) ==
    g[tr][tc] \in {TILE_OPEN_SPACE, MAZE_PASSAGE, TILE_BARREL, TILE_CRATE,
                   TILE_CHEST, TILE_SPAWNER}

\* The lambda is_passage_or_room of the resolution pass.
is_passage_or_room(g, tr, tc) ==
    \/ g[tr][tc] \in {TILE_OPEN_SPACE, MAZE_PASSAGE, TILE_BARREL, TILE_CRATE,
                      TILE_CHEST, TILE_SPAWNER}
    \/ (IsStr(g[tr][tc]) /\ EndsWithWall(g[tr][tc]))

\* A variant that converts passages and leaves walls as they are.
ResolveCell_PassagesOnly(g, r, c) ==
    IF g[r][c] = MAZE_PASSAGE THEN [g EXCEPT ![r][c] = TILE_OPEN_SPACE] ELSE g

\* The body of the conversion loop for one cell.
ResolveCell(g, r, c) ==
    LET rows == GRID_ROWS
        columns == GRID_COLUMNS
        tile == g[r][c]
        has_passage_N == r > 0 /\ is_passage_or_room(g, r - 1, c)
        has_passage_S == r < rows - 1 /\ is_passage_or_room(g, r + 1, c)
        has_passage_W == c > 0 /\ is_passage_or_room(g, r, c - 1)
        has_passage_E == c < columns - 1 /\ is_passage_or_room(g, r, c + 1)
    IN IF IsStr(tile) /\ tile \notin {MAZE_WALL, MAZE_PASSAGE} THEN g
       ELSE IF tile = MAZE_PASSAGE THEN [g EXCEPT ![r][c] = TILE_OPEN_SPACE]
       ELSE IF tile = MAZE_WALL
       THEN IF (has_passage_N \/ has_passage_S) /\ ~(has_passage_W \/ has_passage_E)
            THEN [g EXCEPT ![r][c] = TILE_HALLWAY_VERT]
            ELSE IF (has_passage_W \/ has_passage_E)
                    /\ ~(has_passage_N \/ has_passage_S)
            THEN [g EXCEPT ![r][c] = TILE_HALLWAY_HORZ]
            ELSE [g EXCEPT ![r][c] = TILE_OPEN_SPACE]
       ELSE g

\* The interior cells in the order of the conversion loop.
InteriorCells == CellsOf(1, GRID_ROWS - 1, 1, GRID_COLUMNS - 1)

\* The conversion loop from its i-th cell on.  (The grid of each step is
\* bound as a value before the next step uses it.)
RECURSIVE ResolveFrom(_, _)
ResolveFrom(g, i) ==
    IF i > Len(InteriorCells) THEN g
    ELSE CHOOSE out \in {ResolveFrom(g2, i + 1) :
                         g2 \in {ResolveCell(g, InteriorCells[i][1],
                                             InteriorCells[i][2])}} : TRUE

\* Part 2 of generate_hallways_in_remaining_space.
Resolve ==
    /\ UNCHANGED <<lootvars, interior_wall>>
    /\ pc = "resolve"
    /\ grid' = ResolveFrom(grid, 1)
    /\ pc' = "spawners"
    /\ UNCHANGED <<rooms, room_i, placed_loot, spawner_locations, stack, rnd,
                   carved, visits>>

(***************************************************************************)
(* Scene populator.                                                        *)
(***************************************************************************)
\* A variant whose valid tiles include the container tiles.
PotentialSpots_WithContainers(g) ==
    SelectSeq(InteriorCells,
        LAMBDA p : g[p[1]][p[2]] \in {TILE_OPEN_SPACE, TILE_HALLWAY_HORZ,
                                      TILE_HALLWAY_VERT, TILE_CHEST,
                                      TILE_BARREL, TILE_CRATE})

\* The interior cells that hold one of valid_tiles, in scan order.
PotentialSpots(g) ==
    SelectSeq(InteriorCells,
        LAMBDA p : g[p[1]][p[2]] \in {TILE_OPEN_SPACE, TILE_HALLWAY_HORZ,
                                      TILE_HALLWAY_VERT})

SpawnerRecord(r, c) ==
    [row |-> r, column |-> c,
     center_x_pixels |-> (c * TILE_SIZE_WIDTH) + (TILE_SIZE_WIDTH \div 2),
     center_y_pixels |-> (r * TILE_SIZE_HEIGHT) + (TILE_SIZE_HEIGHT \div 2)]

\* place_enemy_spawners: the pairs <<grid, spawner_locations, budget left>>.
place_enemy_spawners(g, spawner_count, b) ==
    {<<SetCells(g, sh[1], TILE_SPAWNER),
       [i \in 1..Len(sh[1]) |-> SpawnerRecord(sh[1][i][1], sh[1][i][2])],
       sh[2]>> :
     sh \in Shuffled(PotentialSpots(g), spawner_count, b)}

PlaceSpawners ==
    /\ UNCHANGED <<lootvars, interior_wall>>
    /\ pc = "spawners"
    /\ \E res \in place_enemy_spawners(grid, ENEMY_SPAWNER_COUNT, rnd) :
         /\ grid' = res[1]
         /\ spawner_locations' = res[2]
         /\ rnd' = res[3]
    /\ pc' = "outside"
    /\ UNCHANGED <<rooms, room_i, placed_loot, stack, carved, visits>>

\* The placement loop of place_outside_loot over the spots it consumes:
\* random.choice(["Barrel", "Crate"]) for each.
RECURSIVE OutsideLoop(_, _, _)
OutsideLoop(s, spots, i) ==
    IF i > Len(spots) THEN {s}
    ELSE UNION {
           LET container_type == IF dk[1] = 1 THEN "Barrel" ELSE "Crate"
               tile == IF container_type = "Barrel" THEN TILE_BARREL ELSE TILE_CRATE
               r == spots[i][1]
               c == spots[i][2]
           IN OutsideLoop(St([s.g EXCEPT ![r][c] = tile],
                             Append(s.l, LootEntry(container_type, r, c)),
                             dk[2]),
                          spots, i + 1) :
           dk \in Draw(2, s.b) }

place_outside_loot(s) ==
    UNION { UNION {
        OutsideLoop(St(s.g, s.l, sh[2]), sh[1], 1) :
        sh \in Shuffled(PotentialSpots(s.g), OUTSIDE_LOOT_MIN + dn[1] - 1, dn[2]) } :
        dn \in Draw(OUTSIDE_LOOT_MAX - OUTSIDE_LOOT_MIN + 1, s.b) }

PlaceOutsideLoot ==
    /\ UNCHANGED <<lootvars, interior_wall>>
    /\ pc = "outside"
    /\ \E s \in place_outside_loot(St(grid, placed_loot, rnd)) :
         /\ grid' = s.g
         /\ placed_loot' = s.l
         /\ rnd' = s.b
    /\ pc' = "stray"
    /\ UNCHANGED <<rooms, room_i, spawner_locations, stack, carved, visits>>

\* random.random() < STRAY_CHANCE: alternative 1 is true.
spawn_stray_chest_if_lucky(s) ==
    UNION {
      IF dl[1] = 1 /\ PotentialSpots(s.g) # <<>>
      THEN {LET p == PotentialSpots(s.g)[dp[1]]
            IN St([s.g EXCEPT ![p[1]][p[2]] = TILE_CHEST],
                  Append(s.l, LootEntry("Chest [RARE STRAY CHEST]", p[1], p[2])),
                  dp[2]) :
            dp \in Draw(Len(PotentialSpots(s.g)), dl[2])}
      ELSE {St(s.g, s.l, dl[2])} :
      dl \in Draw(2, s.b) }

SpawnStrayChest ==
    /\ UNCHANGED <<lootvars, interior_wall>>
    /\ pc = "stray"
    /\ \E s \in spawn_stray_chest_if_lucky(St(grid, placed_loot, rnd)) :
         /\ grid' = s.g
         /\ placed_loot' = s.l
         /\ rnd' = s.b
    /\ pc' = "done"
    /\ UNCHANGED <<rooms, room_i, spawner_locations, stack, carved, visits>>

(***************************************************************************)
(* The interior wall logic of carve_medium_room and carve_large_room, one  *)
(* loop iteration per step.  The room is a Medium or a Large room that     *)
(* find_clear_area placed on the initial grid and carve_small_room carved; *)
(* the draws of the wall loop are all explored.                            *)
(***************************************************************************)
InitWalls ==
    /\ \E room_type \in {"Medium", "Large"} :
       \E i \in 1..Len(DimensionsOf(room_type)) :
       \E de \in Draw(ROOM_MAX_EXITS - ROOM_MIN_EXITS + 1, MaxDraws) :
         LET room == RoomRecord(0, room_type, DimensionsOf(room_type)[i][1],
                                DimensionsOf(room_type)[i][2],
                                ROOM_MIN_EXITS + de[1] - 1)
         IN \E f \in find_clear_area(InitialGrid, room.width, room.height, de[2]) :
              /\ f[1][1] # -1
              /\ \E s \in carve_small_room(St(InitialGrid, <<>>, f[2]), f[1][1],
                                           f[1][2], room.width, room.height,
                                           room.exits_required) :
                   /\ grid = s.g
                   /\ placed_loot = s.l
              /\ rooms = << [room EXCEPT !.placed = TRUE, !.start_r = f[1][1],
                                        !.start_c = f[1][2]] >>
    /\ room_i = 1
    /\ spawner_locations = <<>>
    /\ pc = "interior_walls"
    /\ stack = <<>>
    /\ rnd = Unbounded
    /\ carved = {}
    /\ visits = [p \in Lattice |-> 0]
    /\ tier_weights = GEAR_TIER_WEIGHTS
    /\ roll = IdleRoll
    /\ loot = <<>>
    /\ rolled = NoRoll
    /\ interior_wall = NoWall

\* if inner_width >= 2 and inner_height >= 2
HasInteriorWalls(room) == room.width - 2 >= 2 /\ room.height - 2 >= 2

\* num_interior_walls = random.randint(1, 3)
DrawInteriorWallCount ==
    /\ pc = "interior_walls"
    /\ HasInteriorWalls(rooms[room_i])
    /\ \E dn \in Draw(3, rnd) :
         /\ interior_wall' = [NoWall EXCEPT !.num_interior_walls = dn[1]]
         /\ rnd' = dn[2]
    /\ pc' = "wall_loop"
    /\ UNCHANGED <<grid, rooms, room_i, placed_loot, spawner_locations, stack,
                   carved, visits, lootvars>>

\* The interior is smaller than 2x2: the wall logic is skipped.
SkipInteriorWalls ==
    /\ pc = "interior_walls"
    /\ ~HasInteriorWalls(rooms[room_i])
    /\ pc' = "walls_done"
    /\ UNCHANGED <<grid, rooms, room_i, placed_loot, spawner_locations, stack,
                   rnd, carved, visits, lootvars, interior_wall>>

\* One iteration of for _ in range(num_interior_walls).
CarveInteriorWall ==
    /\ pc = "wall_loop"
    /\ interior_wall.done < interior_wall.num_interior_walls
    /\ LET room == rooms[room_i]
       IN \E w \in OneInteriorWall(St(grid, placed_loot, rnd), room.start_r + 1,
                                   room.start_c + 1, room.height - 2,
                                   room.width - 2) :
            /\ grid' = w[1].g
            /\ rnd' = w[1].b
            /\ interior_wall' = [interior_wall EXCEPT !.done = @ + 1,
                                                      !.is_horizontal = w[2],
                                                      !.wall_rc = w[3]]
    /\ UNCHANGED <<rooms, room_i, placed_loot, spawner_locations, pc, stack,
                   carved, visits, lootvars>>

\* The loop is exhausted.
EndInteriorWalls ==
    /\ pc = "wall_loop"
    /\ interior_wall.done = interior_wall.num_interior_walls
    /\ pc' = "walls_done"
    /\ UNCHANGED <<grid, rooms, room_i, placed_loot, spawner_locations, stack,
                   rnd, carved, visits, lootvars, interior_wall>>

NextWalls ==
    \/ DrawInteriorWallCount \/ SkipInteriorWalls \/ CarveInteriorWall
    \/ EndInteriorWalls

SpecWalls == InitWalls /\ [][NextWalls]_vars

InitMaze ==
    /\ grid = InitialGrid
    /\ rooms = <<>>
    /\ room_i = 1
    /\ placed_loot = <<>>
    /\ spawner_locations = <<>>
    /\ pc = "hallways"
    /\ stack = <<>>
    /\ rnd = Unbounded
    /\ carved = {}
    /\ visits = [p \in Lattice |-> 0]
    /\ tier_weights = GEAR_TIER_WEIGHTS
    /\ roll = IdleRoll
    /\ loot = <<>>
    /\ rolled = NoRoll
    /\ interior_wall = NoWall

NextMaze == StartMaze \/ CarveStep \/ CarveReturn \/ Resolve

SpecMaze == InitMaze /\ [][NextMaze]_vars

(***************************************************************************)
(* The pipeline of generate_dungeon_and_loot.                              *)
(***************************************************************************)
Init ==
    /\ grid = InitialGrid
    /\ \E rd \in generate_rooms_data(MaxDraws) :
         /\ rooms = rd[1]
         /\ rnd = rd[2]
    /\ room_i = 1
    /\ placed_loot = <<>>
    /\ spawner_locations = <<>>
    /\ pc = "place"
    /\ stack = <<>>
    /\ carved = {}
    /\ visits = [p \in Lattice |-> 0]
    /\ tier_weights = GEAR_TIER_WEIGHTS
    /\ roll = IdleRoll
    /\ loot = <<>>
    /\ rolled = NoRoll
    /\ interior_wall = NoWall

Next ==
    \/ PlaceRoom \/ Connect \/ StartMaze \/ CarveStep \/ CarveReturn \/ Resolve
    \/ PlaceSpawners \/ PlaceOutsideLoot \/ SpawnStrayChest

Spec == Init /\ [][Next]_vars

\* The program is sequential: while a call of the maze generator is active,
\* it executes its next statement.
SpecFair == Spec /\ WF_vars(CarveStep \/ CarveReturn)


(***************************************************************************)
(* Properties of the generated dungeon (specification Spec).               *)
(***************************************************************************)
TerminalTiles ==
    {TILE_NO_WALL, TILE_CORNER_TL, TILE_CORNER_TR, TILE_CORNER_BL,
     TILE_CORNER_BR, TILE_WALL_TOP, TILE_WALL_BOTTOM, TILE_WALL_LEFT,
     TILE_WALL_RIGHT, TILE_HALLWAY_HORZ, TILE_HALLWAY_VERT, TILE_OPEN_SPACE,
     TILE_CHEST, TILE_BARREL, TILE_CRATE, TILE_SPAWNER}

AllCells == (0..(GRID_ROWS - 1)) \X (0..(GRID_COLUMNS - 1))

Tile(p) == grid[p[1]][p[2]]

PlacedRooms == {k \in 1..Len(rooms) : rooms[k].placed}

\* The full rectangle of a placed room, perimeter included.
Rect(room) ==
    (room.start_r..(room.start_r + room.height - 1))
    \X (room.start_c..(room.start_c + room.width - 1))

RectCorners(room) ==
    {room.start_r, room.start_r + room.height - 1}
    \X {room.start_c, room.start_c + room.width - 1}

\* The perimeter cells of a room that are not corners.
NonCornerPerimeter(room) ==
    {p \in Rect(room) \ RectCorners(room) :
        \/ p[1] \in {room.start_r, room.start_r + room.height - 1}
        \/ p[2] \in {room.start_c, room.start_c + room.width - 1}}

\* The wall variant of the side a non-corner perimeter cell lies on.
SideWall(room, p) ==
    IF p[1] = room.start_r THEN TILE_WALL_TOP
    ELSE IF p[1] = room.start_r + room.height - 1 THEN TILE_WALL_BOTTOM
    ELSE IF p[2] = room.start_c THEN TILE_WALL_LEFT
    ELSE TILE_WALL_RIGHT

\* The cell across the room's edge from a non-corner perimeter cell.
Outward(room, p) ==
    IF p[1] = room.start_r THEN <<p[1] - 1, p[2]>>
    ELSE IF p[1] = room.start_r + room.height - 1 THEN <<p[1] + 1, p[2]>>
    ELSE IF p[2] = room.start_c THEN <<p[1], p[2] - 1>>
    ELSE <<p[1], p[2] + 1>>

\* The exits of a room: the non-corner perimeter cells that were opened, so
\* that they no longer hold the wall variant of their side.
ExitCells(room) == {p \in NonCornerPerimeter(room) : Tile(p) # SideWall(room, p)}

\* C1: when the pipeline has finished, no cell of the grid holds a maze
\* marker (MAZE_WALL or MAZE_PASSAGE): every cell holds a terminal tile.
C1_NoTransientMarker ==
    pc = "done" => \A p \in AllCells : Tile(p) \in TerminalTiles

\* A finished run in which a room was placed and the maze carver ran.
C1_Witness == pc = "done" /\ PlacedRooms # {} /\ carved # {}

\* C2: the rectangles of two distinct placed rooms share no cell, and the
\* rectangle of every placed room lies inside the interior, rows
\* 1..rows-2 and columns 1..columns-2.
C2_RoomsDisjointInInterior ==
    \A i \in PlacedRooms :
        /\ Rect(rooms[i]) \subseteq (1..(GRID_ROWS - 2)) \X (1..(GRID_COLUMNS - 2))
        /\ \A j \in PlacedRooms \ {i} : Rect(rooms[i]) \cap Rect(rooms[j]) = {}

\* Room placement has finished with three rooms placed.
C2_Witness == pc = "connect" /\ Cardinality(PlacedRooms) >= 2

\* C3: when the pipeline has finished, every placed room has an exit cell
\* whose outward-adjacent cell was marked MAZE_PASSAGE by the connector or
\* by the maze carver.
C3_EveryRoomHasConnectedExit ==
    pc = "done" =>
        \A k \in PlacedRooms :
            \E p \in ExitCells(rooms[k]) : Outward(rooms[k], p) \in carved

\* C4: between the carving of a room and the connector, the room's corners
\* hold the corner variants, exactly min(exits_required, number of
\* non-corner perimeter cells) non-corner perimeter cells hold Open_Space,
\* and every other non-corner perimeter cell holds the wall of its side.
C4_PerimeterAfterCarve ==
    pc \in {"place", "connect"} =>
        \A k \in PlacedRooms :
            LET room == rooms[k]
                end_r == room.start_r + room.height - 1
                end_c == room.start_c + room.width - 1
                open == {p \in NonCornerPerimeter(room) : Tile(p) = TILE_OPEN_SPACE}
            IN /\ grid[room.start_r][room.start_c] = TILE_CORNER_TL
               /\ grid[room.start_r][end_c] = TILE_CORNER_TR
               /\ grid[end_r][room.start_c] = TILE_CORNER_BL
               /\ grid[end_r][end_c] = TILE_CORNER_BR
               /\ Cardinality(open) =
                      Min(room.exits_required,
                          Cardinality(NonCornerPerimeter(room)))
               /\ \A p \in NonCornerPerimeter(room) \ open :
                      Tile(p) = SideWall(room, p)

\* A placed room that asks for more exits than it has non-corner perimeter
\* cells, and one that asks for fewer.
C4_Witness ==
    /\ pc = "connect"
    /\ \E k \in PlacedRooms :
         /\ NonCornerPerimeter(rooms[k]) # {}
         /\ Cardinality(NonCornerPerimeter(rooms[k])) < rooms[k].exits_required
    /\ \E k \in PlacedRooms :
         Cardinality(NonCornerPerimeter(rooms[k])) > rooms[k].exits_required

\* The tile generate_initial_box_dungeon writes at a cell of the outer ring.
RingTile(p) ==
    IF p = <<0, 0>> THEN TILE_CORNER_TL
    ELSE IF p = <<0, GRID_COLUMNS - 1>> THEN TILE_CORNER_TR
    ELSE IF p = <<GRID_ROWS - 1, 0>> THEN TILE_CORNER_BL
    ELSE IF p = <<GRID_ROWS - 1, GRID_COLUMNS - 1>> THEN TILE_CORNER_BR
    ELSE IF p[1] = 0 THEN TILE_WALL_TOP
    ELSE IF p[1] = GRID_ROWS - 1 THEN TILE_WALL_BOTTOM
    ELSE IF p[2] = 0 THEN TILE_WALL_LEFT
    ELSE TILE_WALL_RIGHT

RingCells ==
    {p \in AllCells : p[1] \in {0, GRID_ROWS - 1} \/ p[2] \in {0, GRID_COLUMNS - 1}}

\* C9: at every stage the outer ring holds what generate_initial_box_dungeon
\* wrote: the four corner variants at the grid corners and the Top, Bottom,
\* Left and Right wall variants on the rest of row 0, the last row, column 0
\* and the last column.
C9_OuterRingUnchanged == \A p \in RingCells : Tile(p) = RingTile(p)

\* A finished run with a room on the first interior row or column, both
\* spawners and some loot placed.
C9_Witness ==
    /\ pc = "done"
    /\ \E k \in PlacedRooms : rooms[k].start_r = 1 \/ rooms[k].start_c = 1
    /\ Len(spawner_locations) = ENEMY_SPAWNER_COUNT
    /\ placed_loot # <<>>

\* C10: when the connector has returned and the maze carver has not started,
\* the outward-adjacent cell of every exit of every placed room holds
\* MAZE_PASSAGE.
C10_ExitsTouchPassage ==
    pc = "hallways" =>
        \A k \in PlacedRooms :
            \A p \in ExitCells(rooms[k]) :
                Tile(Outward(rooms[k], p)) = MAZE_PASSAGE

(***************************************************************************)
(* Properties of the maze carver on an empty interior (SpecMaze).          *)
(***************************************************************************)
Neighbours(p) ==
    {<<p[1] + 1, p[2]>>, <<p[1] - 1, p[2]>>, <<p[1], p[2] + 1>>, <<p[1], p[2] - 1>>}

\* The cells of S reachable from the frontier by steps between 4-adjacent
\* cells of S.
RECURSIVE ReachFrom(_, _, _)
ReachFrom(frontier, seen, S) ==
    LET next == (UNION {Neighbours(p) : p \in frontier} \cap S) \ seen
    IN IF next = {} THEN seen ELSE ReachFrom(next, seen \cup next, S)

Connected(S) ==
    S = {} \/ (LET p == CHOOSE q \in S : TRUE IN ReachFrom({p}, {p}, S) = S)

\* C5: the carver enters no stride-2 cell twice; when the carve started on
\* an all-MAZE_WALL interior has returned, every stride-2 cell holds
\* MAZE_PASSAGE and was entered once, the MAZE_PASSAGE cells are connected
\* under 4-adjacency, there is one connector fewer than stride-2 cells, and
\* the set without any one connector is not connected.
C5_PerfectMaze ==
    /\ \A p \in Lattice : visits[p] <= 1
    /\ pc = "resolve" =>
         LET passages == PassageCells(grid)
             connectors == passages \ Lattice
         IN /\ Lattice \subseteq passages
            /\ \A p \in Lattice : visits[p] = 1
            /\ Connected(passages)
            /\ Cardinality(connectors) = Cardinality(Lattice) - 1
            /\ \A c \in connectors : ~Connected(passages \ {c})

\* The carve has returned to generate_hallways_in_remaining_space with the
\* last stride-2 cell of the scan carved.
C5_Witness ==
    /\ pc = "resolve"
    /\ grid[GRID_ROWS - 3][GRID_COLUMNS - 2] = MAZE_PASSAGE
    /\ stack = <<>>

\* The width x height footprint at the origin lies inside the interior and
\* reads MAZE_WALL on every cell.
FootprintFree(origin, width, height) ==
    \A r \in origin[1]..(origin[1] + height - 1) :
        \A c \in origin[2]..(origin[2] + width - 1) :
            /\ 1 <= r /\ r <= GRID_ROWS - 2
            /\ 1 <= c /\ c <= GRID_COLUMNS - 2
            /\ grid[r][c] = MAZE_WALL

\* C12: a step of place_rooms_in_dungeon takes the next room of the plan and
\* places it exactly when some origin has a free footprint; when none has,
\* the room keeps placed = FALSE and origin (-1, -1), the plan, the grid and
\* the manifest are unchanged, and the loop goes on to the next room.
C12_UnplacedExactlyWhenNoOrigin ==
    [][pc = "place" =>
         LET room == rooms[room_i]
             fits == \E origin \in AllCells :
                         FootprintFree(origin, room.width, room.height)
         IN /\ rooms'[room_i].placed <=> fits
            /\ ~fits => /\ rooms' = rooms
                        /\ ~room.placed
                        /\ room.start_r = -1 /\ room.start_c = -1
                        /\ grid' = grid
                        /\ placed_loot' = placed_loot
            /\ room_i' = room_i + 1
            /\ pc' = IF room_i < Len(rooms) THEN "place" ELSE "connect"]_vars

\* Room placement has finished with an unplaced room before a placed one.
C12_Witness ==
    /\ pc = "connect"
    /\ \E i, j \in 1..Len(rooms) :
         /\ i < j
         /\ ~rooms[i].placed /\ rooms[i].start_r = -1 /\ rooms[i].start_c = -1
         /\ rooms[j].placed

\* The tiles the conversion counts as an open neighbour.
OpenNeighbourTiles ==
    {TILE_OPEN_SPACE, MAZE_PASSAGE, TILE_BARREL, TILE_CRATE, TILE_CHEST,
     TILE_SPAWNER, TILE_WALL_TOP, TILE_WALL_BOTTOM, TILE_WALL_LEFT,
     TILE_WALL_RIGHT}

\* C13: the conversion pass turns every MAZE_PASSAGE interior cell into
\* Open_Space and every MAZE_WALL interior cell into Vertical_Hallway when
\* it has an open neighbour north or south and none east or west, into
\* Horizontal_Hallway when it has one east or west and none north or south,
\* and into Open_Space otherwise; every other cell is unchanged.  The cells
\* are processed in row-major order, so the north and west neighbours are
\* read after their own conversion and the south and east ones before.
C13_ResolutionRules ==
    [][pc = "resolve" =>
         \A p \in AllCells :
             LET r == p[1]
                 c == p[2]
                 ns == \/ grid'[r - 1][c] \in OpenNeighbourTiles
                       \/ grid[r + 1][c] \in OpenNeighbourTiles
                 ew == \/ grid'[r][c - 1] \in OpenNeighbourTiles
                       \/ grid[r][c + 1] \in OpenNeighbourTiles
             IN IF p \in RingCells THEN grid'[r][c] = grid[r][c]
                ELSE IF grid[r][c] = MAZE_PASSAGE
                THEN grid'[r][c] = TILE_OPEN_SPACE
                ELSE IF grid[r][c] = MAZE_WALL
                THEN grid'[r][c] = IF ns /\ ~ew THEN TILE_HALLWAY_VERT
                                   ELSE IF ew /\ ~ns THEN TILE_HALLWAY_HORZ
                                   ELSE TILE_OPEN_SPACE
                ELSE grid'[r][c] = grid[r][c]]_vars

\* The cells that lie in no placed room.
OutsideRooms == {p \in AllCells : \A k \in PlacedRooms : p \notin Rect(rooms[k])}

\* The conversion has run after a carve next to placed rooms and produced
\* hallway tiles of both kinds outside the rooms.
C13_Witness ==
    /\ pc = "spawners"
    /\ PlacedRooms # {} /\ carved # {}
    /\ \E p \in OutsideRooms \ RingCells : Tile(p) = TILE_HALLWAY_VERT
    /\ \E p \in OutsideRooms \ RingCells : Tile(p) = TILE_HALLWAY_HORZ

\* The manifest entries (by index) of a type placed inside a room.
EntriesIn(room, type) ==
    {i \in 1..Len(placed_loot) :
        /\ placed_loot[i].type = type
        /\ <<placed_loot[i].row, placed_loot[i].column>> \in Rect(room)}

\* C14: before any container is placed outside the rooms, every placed room
\* holds at most one Chest, and only if it is Large, at most
\* max(1, BARREL_COUNT_MAX / 2) = 4 Barrels and at most
\* max(1, CRATE_COUNT_MAX / 2) = 4 Crates, each on a cell of its own strictly
\* inside the perimeter.
C14_ContainersPerRoom ==
    pc \in {"place", "connect"} =>
        \A k \in PlacedRooms :
            LET room == rooms[k]
                inside == EntriesIn(room, "Chest") \cup EntriesIn(room, "Barrel")
                          \cup EntriesIn(room, "Crate")
            IN /\ Cardinality(EntriesIn(room, "Chest")) <= 1
               /\ room.type # "Large" => EntriesIn(room, "Chest") = {}
               /\ Cardinality(EntriesIn(room, "Barrel")) <= 4
               /\ Cardinality(EntriesIn(room, "Crate")) <= 4
               /\ \A i \in inside :
                      /\ <<placed_loot[i].row, placed_loot[i].column>>
                            \notin NonCornerPerimeter(room) \cup RectCorners(room)
                      /\ \A j \in inside \ {i} :
                             <<placed_loot[i].row, placed_loot[i].column>>
                             # <<placed_loot[j].row, placed_loot[j].column>>

\* The number of 4-adjacent pairs of cells of S.
EdgeCount(S) ==
    Cardinality({p \in S : <<p[1] + 1, p[2]>> \in S})
    + Cardinality({p \in S : <<p[1], p[2] + 1>> \in S})

\* C11: with rooms placed and connected, when the carve has returned and the
\* conversion has not run, every stride-2 cell that read MAZE_WALL when the
\* carve started reads MAZE_PASSAGE (the carver never writes MAZE_WALL, so
\* none of them still reads MAZE_WALL), and the MAZE_PASSAGE cells, the
\* connector's included, are connected and have no cycle under 4-adjacency.
C11_SpanningLoopFreeWithRooms ==
    pc = "resolve" =>
        LET passages == PassageCells(grid)
        IN /\ \A p \in Lattice : Tile(p) # MAZE_WALL
           /\ Connected(passages)
           /\ passages # {} => EdgeCount(passages) = Cardinality(passages) - 1

(***************************************************************************)
(* Properties of the loot roller (SpecLoot, SpecTier).                     *)
(***************************************************************************)
(* Claims about the maze carve next to placed rooms (specification Spec).  *)
(***************************************************************************)
\* The cells of the rectangles of the placed rooms.
RoomCells == UNION {Rect(rooms[k]) : k \in PlacedRooms}

\* The connecting cell between two stride-2 neighbours.
Between(a, b) == <<(a[1] + b[1]) \div 2, (a[2] + b[2]) \div 2>>

\* C17: the maze carve writes no cell inside the rectangle of a placed room.
\* The cell a call enters read MAZE_WALL, the connecting cell it writes
\* unchecked read MAZE_WALL or MAZE_PASSAGE, both lie outside every placed
\* room, and the carve changes no other cell.
C17_CarveSparesRooms ==
    [][(pc = "hallways" \/ pc = "carve") =>
         LET entered == IF Len(stack') > Len(stack)
                        THEN {stack'[Len(stack')]} ELSE {}
             connecting == IF Len(stack') > Len(stack) /\ stack # <<>>
                           THEN {Between(stack[Len(stack)], stack'[Len(stack')])}
                           ELSE {}
         IN /\ \A p \in entered : Tile(p) = MAZE_WALL
            /\ \A p \in connecting : Tile(p) \in {MAZE_WALL, MAZE_PASSAGE}
            /\ (entered \cup connecting) \cap RoomCells = {}
            /\ \A p \in AllCells :
                 grid'[p[1]][p[2]] =
                     IF p \in entered \cup connecting THEN MAZE_PASSAGE
                     ELSE Tile(p)]_vars

\* The innermost call was entered across a connecting cell that touches the
\* rectangle of a placed room.
C17_Witness ==
    /\ pc = "carve"
    /\ Len(stack) >= 2
    /\ Neighbours(Between(stack[Len(stack) - 1], stack[Len(stack)]))
           \cap RoomCells # {}

(***************************************************************************)
(* Claims about the loot manifest and the grid (specification Spec).       *)
(***************************************************************************)
\* The container tile of a manifest entry's type; the stray chest is a Chest
\* under a marked type name.
KindTile(type) ==
    IF type = "Barrel" THEN TILE_BARREL
    ELSE IF type = "Crate" THEN TILE_CRATE
    ELSE TILE_CHEST

EntryCell(i) == <<placed_loot[i].row, placed_loot[i].column>>

\* C18: after every stage of the pipeline the manifest and the grid agree:
\* the cell of each entry holds the container tile of the entry's kind, no
\* two entries share a cell, and every cell that holds a container tile is
\* the cell of an entry.  So no stage overwrites a placed container.
C18_ManifestMatchesGrid ==
    /\ \A i \in 1..Len(placed_loot) :
         /\ placed_loot[i].type \in {"Chest", "Barrel", "Crate",
                                     "Chest [RARE STRAY CHEST]"}
         /\ EntryCell(i) \in AllCells
         /\ Tile(EntryCell(i)) = KindTile(placed_loot[i].type)
    /\ \A i, j \in 1..Len(placed_loot) : i # j => EntryCell(i) # EntryCell(j)
    /\ {p \in AllCells : Tile(p) \in {TILE_CHEST, TILE_BARREL, TILE_CRATE}}
           = {EntryCell(i) : i \in 1..Len(placed_loot)}

\* A finished run whose manifest holds a container of a room, a container
\* placed outside the rooms and the stray chest, with the spawners placed.
C18_Witness ==
    /\ pc = "done"
    /\ spawner_locations # <<>>
    /\ \E i, j, k \in 1..Len(placed_loot) :
         /\ EntryCell(i) \in RoomCells
         /\ EntryCell(j) \notin RoomCells /\ placed_loot[j].type \in {"Barrel", "Crate"}
         /\ placed_loot[k].type = "Chest [RARE STRAY CHEST]"

(***************************************************************************)
(* Claims about the termination of the maze carve (specification SpecFair). *)
(***************************************************************************)
\* C16: from every start cell, on every grid the room placer and the
\* connector leave, a started carve returns from its outermost call, and the
\* depth of the recursion never exceeds the number of stride-2 interior
\* cells, 21, which is below the recursion limit of 2000.
C16_CarveTerminates ==
    /\ [](/\ Len(stack) <= Cardinality(Lattice)
          /\ Cardinality(Lattice) = 21
          /\ Cardinality(Lattice) < RECURSION_LIMIT)
    /\ (pc = "carve" ~> (pc = "resolve" /\ stack = <<>>))

\* The carve has returned on a grid with a placed room after entering at
\* least three stride-2 cells.
C16_Witness ==
    /\ pc = "resolve"
    /\ stack = <<>>
    /\ PlacedRooms # {}
    /\ Cardinality({p \in Lattice : visits[p] >= 1}) >= 3

(***************************************************************************)
(* Claims about the interior wall logic (specification SpecWalls).         *)
(***************************************************************************)
\* The cells of a room strictly inside its perimeter.
Interior(room) ==
    ((room.start_r + 1)..(room.start_r + room.height - 2))
    \X ((room.start_c + 1)..(room.start_c + room.width - 2))

\* C15: the interior wall logic runs only when the interior is at least 2x2
\* and carves 1 to 3 walls; a step of it changes a cell only if the cell lies
\* in the room interior on the row or column this wall chose and holds
\* Open_Space, and sets it to Horizontal_Hallway (row) or Vertical_Hallway
\* (column); every Open_Space interior cell of the line is replaced.  So
\* container tiles, perimeter cells and the tiles of an earlier wall are kept.
C15_PartitionFrame ==
    [][(pc = "interior_walls" \/ pc = "wall_loop") =>
         LET room == rooms[room_i]
             line == {p \in Interior(room) :
                        IF interior_wall'.is_horizontal
                        THEN p[1] = interior_wall'.wall_rc
                        ELSE p[2] = interior_wall'.wall_rc}
             tile == IF interior_wall'.is_horizontal THEN TILE_HALLWAY_HORZ
                     ELSE TILE_HALLWAY_VERT
         IN /\ ~HasInteriorWalls(room) => grid' = grid /\ pc' = "walls_done"
            /\ interior_wall'.num_interior_walls \in 0..3
            /\ pc' = "wall_loop" => interior_wall'.num_interior_walls >= 1
            /\ interior_wall'.done <= interior_wall'.num_interior_walls
            /\ interior_wall'.done = interior_wall.done => grid' = grid
            /\ interior_wall'.done # interior_wall.done =>
                 /\ line # {}
                 /\ \A p \in AllCells :
                      grid'[p[1]][p[2]] =
                          IF p \in line /\ Tile(p) = TILE_OPEN_SPACE THEN tile
                          ELSE Tile(p)]_vars

\* A vertical wall has just crossed an earlier horizontal one and met a
\* container: the crossing cell keeps Horizontal_Hallway and the container
\* keeps its tile.
C15_Witness ==
    /\ pc = "wall_loop"
    /\ interior_wall.done >= 2
    /\ ~interior_wall.is_horizontal
    /\ \E p, q, b \in Interior(rooms[room_i]) :
         /\ p[2] = interior_wall.wall_rc /\ Tile(p) = TILE_HALLWAY_HORZ
         /\ q[2] = interior_wall.wall_rc /\ Tile(q) = TILE_HALLWAY_VERT
         /\ b[2] = interior_wall.wall_rc
         /\ Tile(b) \in {TILE_BARREL, TILE_CRATE, TILE_CHEST}

C7_BarrelCrateLoot ==
    roll.phase = "done" =>
        /\ roll.kind = "Barrel" => Len(loot) = 4
        /\ roll.kind = "Crate" => Len(loot) = 6
        /\ roll.kind \in {"Barrel", "Crate"} =>
             \A i \in 1..Len(loot) :
                 loot[i].tier \in {"F", "E", "D", "C", "B", "A"}

\* A crate whose six items run from A down to F.
C7_Witness ==
    /\ roll.kind = "Crate" /\ roll.phase = "done"
    /\ tier_weights = GEAR_TIER_WEIGHTS
    /\ Len(loot) = 6
    /\ loot[1].tier = "A"
    /\ loot[6].tier = "F"

\* The tiers of the inclusive range from min_tier to max_tier.
TierRange(min_tier, max_tier) ==
    {GEAR_TIERS[i] : i \in (TierIndex(min_tier) + 1)..(TierIndex(max_tier) + 1)}

\* C8: _roll_weighted_tier returns "F" without a draw when no tier of the
\* range has a weight entry or the weights of those that have one are all
\* zero; otherwise it returns a tier of the range whose weight is positive.
C8_WeightedTierFallback ==
    rolled # NoRoll =>
        LET weighted == TierRange(rolled.min_tier, rolled.max_tier)
                        \cap DOMAIN tier_weights
        IN IF \A t \in weighted : tier_weights[t] = 0
           THEN rolled.tier = "F" /\ rolled.draws = 0
           ELSE /\ rolled.tier \in weighted
                /\ tier_weights[rolled.tier] > 0

\* The range B..S with S, A and B weighted zero, and F weighted: the
\* fallback returns F, which lies outside the range.
C8_Witness ==
    /\ rolled.min_tier = "B" /\ rolled.max_tier = "S"
    /\ {"S", "A", "B", "F"} \subseteq DOMAIN tier_weights
    /\ \A t \in {"S", "A", "B"} : tier_weights[t] = 0
    /\ tier_weights["F"] > 0
    /\ rolled.tier = "F" /\ rolled.draws = 0

\* C19: in chest loot generation high_count + low_count never exceeds 8, so
\* the sampling step is never applied: the return leaves the list as the two
\* loops built it, with the high_count items of tier A or S (at least one)
\* first and the low_count items of tier F to B after them.
C19_ChestNeverSampled ==
    /\ [](roll.kind = "Chest" =>
            /\ roll.high_count \in 1..4
            /\ roll.low_count \in 0..4
            /\ roll.high_count + roll.low_count <= MAX_LOOT_ITEMS
            /\ Len(loot) <= roll.high_count + roll.low_count
            /\ ~roll.sampled
            /\ roll.phase = "done" =>
                 /\ Len(loot) = roll.high_count + roll.low_count
                 /\ loot[1].tier \in {"A", "S"}
                 /\ \A i \in 1..Len(loot) :
                      IF i <= roll.high_count
                      THEN loot[i].tier \in {"A", "S"}
                      ELSE loot[i].tier \in {"F", "E", "D", "C", "B"})
    /\ [][(roll.kind = "Chest" /\ roll.phase = "low" /\ roll'.phase = "done")
             => loot' = loot]_vars

\* A returned chest with both counts at their maximum of 4 and mixed tiers
\* in each phase.
C19_Witness ==
    /\ roll.kind = "Chest" /\ roll.phase = "done"
    /\ roll.high_count = 4 /\ roll.low_count = 4
    /\ Len(loot) = 8
    /\ loot[1].tier = "A" /\ loot[4].tier = "S"
    /\ loot[5].tier = "B" /\ loot[8].tier = "C"

====
